---- MODULE Spec2Model ----
(***************************************************************************)
(* rl_zoo3/debug2.py: the debug() entry point (model-path resolution with  *)
(* hub fallback, replay-buffer reconstruction from recorded trajectory     *)
(* files, persistence of the two buffers) and the DebugSimulation slider   *)
(* harness.                                                                *)
(***************************************************************************)
EXTENDS Integers, Sequences, FiniteSets, TLC

VARIABLES
    pc,               \* position of debug() in its body
    run,              \* which invocation of debug() on this file system
    err,              \* the exception that ended the run, "none" while running
    err_at,           \* history: pc at which that exception was raised
    args,             \* the parsed command line that model-path resolution reads
    calls,            \* history: get_model_path / download_from_hub calls made
    dir_exists,       \* whether directory_path exists
    fs,               \* path -> pickled object, the files under directory_path
    file_paths,       \* debug(): file_paths
    file_path,        \* debug(): file_path, left over from the listing loop
    counter,          \* debug(): counter
    loaded_object,    \* debug(): loaded_object
    idx,              \* debug(): i of the inner loop (next index to insert)
    replay_buffer,    \* debug(): replay_buffer (goal-conditioned)
    plain_replay_buffer, \* debug(): plain_replay_buffer
    opened,           \* history: paths opened for reading in this run
    inserted,         \* history: transitions handed to replay_buffer.add
    n_alloc,          \* history: buffer constructions in this run
    art,              \* history: what this run did to each output artifact
    first_paths,      \* history: the record files the first run enumerated
    button,           \* physics engine: reading of the "reset" button
    sliders,          \* physics engine: slider readings at the last step call
    latest_reset,     \* DebugSimulation.latest_reset
    step_result,      \* outcome of the last DebugSimulation.step call
    step_action,      \* value the last step call returned
    reset_calls,      \* self.reset() calls made by the last step call
    step_saw          \* history: what the last step call read first

pipe_vars == <<pc, run, err, err_at, args, calls,
               dir_exists, fs, file_paths, file_path, counter, loaded_object,
               idx, replay_buffer, plain_replay_buffer, opened, inserted,
               n_alloc, art, first_paths>>
sim_vars == <<button, sliders, latest_reset, step_result, step_action,
              reset_calls, step_saw>>
vars == <<pipe_vars, sim_vars>>

----------------------------------------------------------------------------
(* Bounds of the model *)

\* length of the arrays of a recorded trajectory file
RecordSize == 3
\* capacity both buffers are built with (36090 in the source, scaled down)
BufferSize == 2
\* invocations of debug() on the same file system
MaxRuns == 2
\* presses of the reset button
MaxPress == 3

----------------------------------------------------------------------------
(* Strings as token sequences, so that the tests on them are computed *)

\* needle in haystack, as Python's `in` on str
Contains(haystack, needle) ==
    \E k \in 0..(Len(haystack) - Len(needle)) :
        SubSeq(haystack, k + 1, k + Len(needle)) = needle

\* str.endswith
EndsWith(s, suffix) ==
    /\ Len(s) >= Len(suffix)
    /\ SubSeq(s, Len(s) - Len(suffix) + 1, Len(s)) = suffix

\* os.path.join(directory, filename)
PathJoin(directory, filename) == directory \o filename

Folders == { <<"rl-trained-agents">>, <<"logs">>,
             <<"data/", "rl-trained-agents", "/v2">> }

directory_path == <<"Stage3_v4/">>

PklSuffix == <<".pkl">>

SavePathHer == PathJoin(directory_path, <<"replay_buffer_40", ".pkl">>)

SavePathPlain == PathJoin(directory_path, <<"plain_replay_buffer_40", ".pkl">>)

RecordNames == { <<"a", ".pkl">>, <<"b", ".pkl">> }

NotesName == <<"notes", ".pkl", ".txt">>

\* all orders in which os.listdir may return the members of S
Orders(S) ==
    { s \in [1..Cardinality(S) -> S] :
        \A i, j \in 1..Cardinality(S) : i # j => s[i] # s[j] }

\* os.listdir(d): the names of the files of fs directly under d
DirNames(files, d) ==
    { SubSeq(p, Len(d) + 1, Len(p)) : p \in { q \in DOMAIN files : SubSeq(q, 1, Len(d)) = d } }

----------------------------------------------------------------------------
(* Pickled objects *)

Indices(n) == 0..(n - 1)

Tok(field, f, i) == <<field, f, i>>

ObsKeys == {"observation", "achieved_goal", "desired_goal"}

\* a recorded trajectory: a dict-observation buffer object with `pos` valid entries
RecordedObject(f, pos) ==
    [ kind |-> "dict", buffer_size |-> RecordSize, pos |-> pos, full |-> FALSE,
      observations |-> [k \in ObsKeys |-> [i \in Indices(RecordSize) |-> Tok(k, f, i)]],
      next_observations |-> [k \in ObsKeys |-> [i \in Indices(RecordSize) |-> Tok("next_" \o k, f, i)]],
      actions |-> [i \in Indices(RecordSize) |-> Tok("action", f, i)],
      rewards |-> [i \in Indices(RecordSize) |-> Tok("reward", f, i)],
      dones |-> [i \in Indices(RecordSize) |-> Tok("done", f, i)],
      infos |-> [i \in Indices(RecordSize) |-> Tok("info", f, i)] ]

\* a file pickle.load cannot read (corrupt, truncated, or not a pickle)
CorruptObject == [ kind |-> "corrupt" ]

Zero(field) == Tok(field, "zero", 0)

\* HerReplayBuffer(n, observation_space, action_space, env): empty, zero-filled
NewHerBuffer(n) ==
    [ kind |-> "dict", buffer_size |-> n, pos |-> 0, full |-> FALSE,
      observations |-> [k \in ObsKeys |-> [i \in Indices(n) |-> Zero(k)]],
      next_observations |-> [k \in ObsKeys |-> [i \in Indices(n) |-> Zero("next_" \o k)]],
      actions |-> [i \in Indices(n) |-> Zero("action")],
      rewards |-> [i \in Indices(n) |-> Zero("reward")],
      dones |-> [i \in Indices(n) |-> Zero("done")],
      infos |-> [i \in Indices(n) |-> Zero("info")] ]

\* ReplayBuffer(n, observation_space["observation"], action_space): empty, zero-filled
NewPlainBuffer(n) ==
    [ kind |-> "flat", buffer_size |-> n, pos |-> 0, full |-> FALSE,
      observations |-> [i \in Indices(n) |-> Zero("observation")],
      next_observations |-> [i \in Indices(n) |-> Zero("next_observation")],
      actions |-> [i \in Indices(n) |-> Zero("action")],
      rewards |-> [i \in Indices(n) |-> Zero("reward")],
      dones |-> [i \in Indices(n) |-> Zero("done")],
      infos |-> [i \in Indices(n) |-> Zero("info")] ]

\* the write cursor after one more insert
AdvancePos(buf) == (buf.pos + 1) % buf.buffer_size

AdvanceFull(buf) == buf.full \/ buf.pos + 1 = buf.buffer_size

\* HerReplayBuffer.add(obs, next_obs, action, reward, done, infos)
HerAdd(buf, t) ==
    [ buf EXCEPT
        !.observations = [k \in ObsKeys |-> [@[k] EXCEPT ![buf.pos] = t.obs[k]]],
        !.next_observations = [k \in ObsKeys |-> [@[k] EXCEPT ![buf.pos] = t.next_obs[k]]],
        !.actions = [@ EXCEPT ![buf.pos] = t.action],
        !.rewards = [@ EXCEPT ![buf.pos] = t.reward],
        !.dones = [@ EXCEPT ![buf.pos] = t.done],
        !.infos = [@ EXCEPT ![buf.pos] = t.info],
        !.pos = AdvancePos(buf),
        !.full = AdvanceFull(buf) ]

\* ReplayBuffer.add(obs, next_obs, action, reward, done, infos)
PlainAdd(buf, t) ==
    [ buf EXCEPT
        !.observations = [@ EXCEPT ![buf.pos] = t.obs],
        !.next_observations = [@ EXCEPT ![buf.pos] = t.next_obs],
        !.actions = [@ EXCEPT ![buf.pos] = t.action],
        !.rewards = [@ EXCEPT ![buf.pos] = t.reward],
        !.dones = [@ EXCEPT ![buf.pos] = t.done],
        !.infos = [@ EXCEPT ![buf.pos] = t.info],
        !.pos = AdvancePos(buf),
        !.full = AdvanceFull(buf) ]

\* buffer.size(): the number of transitions the buffer reports
BufSize(buf) == IF buf.full THEN buf.buffer_size ELSE buf.pos

----------------------------------------------------------------------------
(* debug(): model-path resolution, lines 88-124 *)

TrainedAgents == <<"rl-trained-agents">>

\* the except clause with its test failing to recognise any folder as local
NotTrainedAgentsFolderNever(f) == FALSE

\* "rl-trained-agents" not in folder
NotTrainedAgentsFolder(f) == ~Contains(f, TrainedAgents)

\* get_model_path returns, or raises one of these
GetModelPathOutcomes == {"ok", "AssertionError", "ValueError", "OSError"}

\* except (AssertionError, ValueError)
Caught(e) == e \in {"AssertionError", "ValueError"}

NoObject == [ kind |-> "none" ]

Unset == <<>>

NoArtifacts == [ her |-> "none", plain |-> "none" ]

\* an exception swallowed by an `except: continue` around the statement
AbortSwallowed(e) ==
    /\ pc' = pc
    /\ err' = e
    /\ err_at' = pc

\* no except clause encloses lines 126-255: the exception ends debug()
Abort(e) ==
    /\ pc' = "aborted"
    /\ err' = e
    /\ err_at' = pc

\* get_model_path(args.exp_id, folder, algo, env_name, args.load_best,
\*                args.load_checkpoint, args.load_last_checkpoint)
GetModelPathCall(a) ==
    [ fn |-> "get_model_path", exp_id |-> a.exp_id, folder |-> a.folder,
      load_best |-> a.load_best, load_checkpoint |-> a.load_checkpoint,
      load_last_checkpoint |-> a.load_last_checkpoint ]

\* download_from_hub(algo=algo, env_name=env_name, exp_id=args.exp_id,
\*                   folder=folder, organization="sb3", repo_name=None, force=False)
DownloadCall(a) ==
    [ fn |-> "download_from_hub", exp_id |-> a.exp_id, folder |-> a.folder,
      organization |-> "sb3", force |-> FALSE ]

\* the first get_model_path call of the try block, and the except clause's test
GetModelPath ==
    /\ pc = "get_model_path"
    /\ calls' = Append(calls, GetModelPathCall(args))
    /\ \E outcome \in GetModelPathOutcomes :
         IF outcome = "ok"
         THEN pc' = "setup" /\ UNCHANGED <<err, err_at>>
         ELSE IF ~Caught(outcome)
              THEN Abort(outcome)
              ELSE IF NotTrainedAgentsFolder(args.folder)
                   THEN Abort(outcome)
                   ELSE pc' = "hub_fallback" /\ UNCHANGED <<err, err_at>>
    /\ UNCHANGED <<run, args, dir_exists, fs, file_paths,
                   file_path, counter, loaded_object, idx, replay_buffer,
                   plain_replay_buffer, opened, inserted, n_alloc, art,
                   first_paths>>
    /\ UNCHANGED sim_vars

\* the else branch of the except clause: download_from_hub, then
\* get_model_path once more
HubFallback ==
    /\ pc = "hub_fallback"
    /\ \E downloaded \in BOOLEAN :
         IF ~downloaded
         THEN /\ Abort("DownloadError")
              /\ calls' = Append(calls, DownloadCall(args))
         ELSE /\ calls' = calls \o <<DownloadCall(args), GetModelPathCall(args)>>
              /\ \E outcome \in GetModelPathOutcomes :
                   IF outcome = "ok"
                   THEN pc' = "setup" /\ UNCHANGED <<err, err_at>>
                   ELSE Abort(outcome)
    /\ UNCHANGED <<run, args, dir_exists, fs, file_paths,
                   file_path, counter, loaded_object, idx, replay_buffer,
                   plain_replay_buffer, opened, inserted, n_alloc, art,
                   first_paths>>
    /\ UNCHANGED sim_vars

----------------------------------------------------------------------------
(* debug(): enumeration of the record files, lines 209-214 *)

IsRecordName(filename) == EndsWith(filename, PklSuffix)

\* file_paths after the listing loop ran over `listing`
ListedPaths(listing) ==
    LET kept == SelectSeq(listing, IsRecordName)
    IN  [k \in 1..Len(kept) |-> PathJoin(directory_path, kept[k])]

\* file_path after the listing loop: the last path appended, if any
LastListedPath(listing) ==
    LET paths == ListedPaths(listing)
    IN  IF Len(paths) = 0 THEN Unset ELSE paths[Len(paths)]

ListRecords ==
    /\ pc = "setup"
    /\ IF ~dir_exists
       THEN /\ Abort("FileNotFoundError")
            /\ UNCHANGED <<file_paths, file_path, first_paths>>
       ELSE \E listing \in Orders(DirNames(fs, directory_path)) :
              /\ file_paths' = ListedPaths(listing)
              /\ file_path' = LastListedPath(listing)
              /\ first_paths' = IF run = 1
                                THEN [ set |-> TRUE, paths |-> ListedPaths(listing) ]
                                ELSE first_paths
              /\ pc' = "alloc"
              /\ UNCHANGED <<err, err_at>>
    /\ UNCHANGED <<run, args, calls, dir_exists, fs,
                   counter, loaded_object, idx, replay_buffer,
                   plain_replay_buffer, opened, inserted, n_alloc, art>>
    /\ UNCHANGED sim_vars

----------------------------------------------------------------------------
(* debug(): buffer construction, lines 216-218 *)

\* first argument of HerReplayBuffer(...)
HerBufferSize == BufferSize

\* the plain buffer built with another literal than the goal-conditioned one
PlainBufferSizeOff == BufferSize + 1

\* first argument of ReplayBuffer(...)
PlainBufferSize == BufferSize

AllocateBuffers ==
    /\ pc = "alloc"
    /\ replay_buffer' = NewHerBuffer(HerBufferSize)
    /\ plain_replay_buffer' = NewPlainBuffer(PlainBufferSize)
    /\ counter' = 0
    /\ n_alloc' = n_alloc + 1
    /\ pc' = "loop"
    /\ UNCHANGED <<run, err, err_at, args, calls, dir_exists,
                   fs, file_paths, file_path, loaded_object, idx, opened,
                   inserted, art, first_paths>>
    /\ UNCHANGED sim_vars

----------------------------------------------------------------------------
(* debug(): the reconstruction loop, lines 219-248 *)

\* the path the body of `for file in file_paths` opens: open(file_path, 'rb')
PathToOpen(k) == file_path

\* the inner loop over range(loaded_object.pos) has run out
InnerLoopDone ==
    IF loaded_object.kind = "none" THEN TRUE ELSE idx >= loaded_object.pos

\* the persistence block indented into the outer loop: reached after one record
OuterLoopDoneEarly == IF Len(file_paths) = 0 THEN TRUE ELSE counter >= 1

\* `for file in file_paths` has no element left
OuterLoopDone == counter = Len(file_paths)

\* loaded_object.observations["observation"][i] and the like can be evaluated
CanIndex(obj, i) == obj.kind = "dict" /\ i \in Indices(obj.buffer_size)

\* the arguments of replay_buffer.add, lines 225-240
HerAddArgs(obj, i) ==
    [ obs |-> [ observation |-> obj.observations["observation"][i],
                achieved_goal |-> obj.observations["achieved_goal"][i],
                desired_goal |-> obj.observations["desired_goal"][i] ],
      next_obs |-> [ observation |-> obj.next_observations["observation"][i],
                     achieved_goal |-> obj.next_observations["achieved_goal"][i],
                     desired_goal |-> obj.next_observations["desired_goal"][i] ],
      action |-> obj.actions[i],
      reward |-> obj.rewards[i],
      done |-> obj.dones[i],
      info |-> obj.infos[i] ]

\* plain_replay_buffer.add handed the observation as next observation too
PlainAddArgsSwapped(obj, i) ==
    [ obs |-> obj.observations["observation"][i],
      next_obs |-> obj.observations["observation"][i],
      action |-> obj.actions[i],
      reward |-> obj.rewards[i],
      done |-> obj.dones[i],
      info |-> obj.infos[i] ]

\* the arguments of plain_replay_buffer.add, lines 241-248
PlainAddArgs(obj, i) ==
    [ obs |-> obj.observations["observation"][i],
      next_obs |-> obj.next_observations["observation"][i],
      action |-> obj.actions[i],
      reward |-> obj.rewards[i],
      done |-> obj.dones[i],
      info |-> obj.infos[i] ]

\* one pass of the outer loop up to pickle.load, lines 219-223
OpenRecord ==
    /\ pc = "loop"
    /\ InnerLoopDone
    /\ counter < Len(file_paths)
    /\ counter' = counter + 1
    /\ opened' = Append(opened, PathToOpen(counter + 1))
    /\ LET obj == fs[PathToOpen(counter + 1)]
       IN  IF obj.kind = "corrupt"
           THEN Abort("UnpicklingError") /\ UNCHANGED <<loaded_object, idx>>
           ELSE /\ loaded_object' = obj
                /\ idx' = 0
                /\ UNCHANGED <<pc, err, err_at>>
    /\ UNCHANGED <<run, args, calls, dir_exists, fs,
                   file_paths, file_path, replay_buffer, plain_replay_buffer,
                   inserted, n_alloc, art, first_paths>>
    /\ UNCHANGED sim_vars

\* one pass of the inner loop: the paired insert of index i, lines 224-248
InsertPair ==
    /\ pc = "loop"
    /\ ~InnerLoopDone
    /\ IF ~CanIndex(loaded_object, idx)
       THEN /\ Abort("IndexError")
            /\ UNCHANGED <<idx, replay_buffer, plain_replay_buffer, inserted>>
       ELSE /\ replay_buffer' = HerAdd(replay_buffer, HerAddArgs(loaded_object, idx))
            /\ plain_replay_buffer' =
                   PlainAdd(plain_replay_buffer, PlainAddArgs(loaded_object, idx))
            /\ inserted' = Append(inserted, HerAddArgs(loaded_object, idx))
            /\ idx' = idx + 1
            /\ UNCHANGED <<pc, err, err_at>>
    /\ UNCHANGED <<run, args, calls, dir_exists, fs,
                   file_paths, file_path, counter, loaded_object, opened,
                   n_alloc, art, first_paths>>
    /\ UNCHANGED sim_vars

\* `for file in file_paths` has run out
FinishLoop ==
    /\ pc = "loop"
    /\ InnerLoopDone
    /\ OuterLoopDone
    /\ pc' = "dump_her"
    /\ UNCHANGED <<run, err, err_at, args, calls, dir_exists,
                   fs, file_paths, file_path, counter, loaded_object, idx,
                   replay_buffer, plain_replay_buffer, opened, inserted,
                   n_alloc, art, first_paths>>
    /\ UNCHANGED sim_vars

----------------------------------------------------------------------------
(* debug(): persistence, lines 249-255 *)

WriteOutcomes == {"ok", "open_fails", "dump_fails"}

\* the file system after open(path, 'wb') and pickle.dump(obj, f)
WriteFile(files, path, obj) ==
    [p \in DOMAIN files \cup {path} |-> IF p = path THEN obj ELSE files[p]]

\* with open(save_path, 'wb') as f: pickle.dump(buf, f), for one artifact
Dump(which, path, buf, next_pc) ==
    \E outcome \in WriteOutcomes :
        /\ outcome = "ok" =>
             /\ fs' = WriteFile(fs, path, buf)
             /\ art' = [art EXCEPT ![which] = "written"]
             /\ pc' = next_pc
             /\ UNCHANGED <<err, err_at>>
        /\ outcome = "open_fails" =>
             /\ Abort("OSError")
             /\ UNCHANGED <<fs, art>>
        /\ outcome = "dump_fails" =>
             /\ fs' = WriteFile(fs, path, CorruptObject)
             /\ art' = [art EXCEPT ![which] = "partial"]
             /\ Abort("PicklingError")

DumpHer ==
    /\ pc = "dump_her"
    /\ Dump("her", SavePathHer, replay_buffer, "dump_plain")
    /\ UNCHANGED <<run, args, calls, dir_exists,
                   file_paths, file_path, counter, loaded_object, idx,
                   replay_buffer, plain_replay_buffer, opened, inserted,
                   n_alloc, first_paths>>
    /\ UNCHANGED sim_vars

DumpPlain ==
    /\ pc = "dump_plain"
    /\ Dump("plain", SavePathPlain, plain_replay_buffer, "done")
    /\ UNCHANGED <<run, args, calls, dir_exists,
                   file_paths, file_path, counter, loaded_object, idx,
                   replay_buffer, plain_replay_buffer, opened, inserted,
                   n_alloc, first_paths>>
    /\ UNCHANGED sim_vars

----------------------------------------------------------------------------
(* A further invocation of debug() on the same file system *)

NoBuffer == [ kind |-> "none" ]

RunStart ==
    /\ err = "none"
    /\ err_at = "none"
    /\ file_paths = <<>>
    /\ file_path = Unset
    /\ counter = 0
    /\ loaded_object = NoObject
    /\ idx = 0
    /\ replay_buffer = NoBuffer
    /\ plain_replay_buffer = NoBuffer
    /\ opened = <<>>
    /\ inserted = <<>>
    /\ n_alloc = 0
    /\ art = NoArtifacts

Rerun ==
    /\ pc \in {"done", "aborted"}
    /\ run < MaxRuns
    /\ run' = run + 1
    /\ pc' = "setup"
    /\ err' = "none"
    /\ err_at' = "none"
    /\ file_paths' = <<>>
    /\ file_path' = Unset
    /\ counter' = 0
    /\ loaded_object' = NoObject
    /\ idx' = 0
    /\ replay_buffer' = NoBuffer
    /\ plain_replay_buffer' = NoBuffer
    /\ opened' = <<>>
    /\ inserted' = <<>>
    /\ n_alloc' = 0
    /\ art' = NoArtifacts
    /\ UNCHANGED <<args, calls, dir_exists, fs, first_paths>>
    /\ UNCHANGED sim_vars

----------------------------------------------------------------------------
(* Initial states *)

RecordChoices(name) ==
    {CorruptObject} \cup { RecordedObject(name[1], n) : n \in 0..(RecordSize + 1) }

\* the directories debug() may be started on: any subset of the record
\* names, each holding a readable or an unreadable record, beside a file
\* that is no record
InitialFileSystems ==
    UNION { [ {PathJoin(directory_path, n) : n \in present}
                -> UNION {RecordChoices(n) : n \in present} \cup {CorruptObject} ]
            : present \in SUBSET RecordNames }

ButtonStart == 1

SliderNames == {"posX", "posY", "posZ", "roll", "pitch", "yaw",
                "grasp_angle_0", "grasp_angle_1"}

SliderStart == 0

SimInit ==
    /\ button = ButtonStart
    /\ latest_reset = button
    /\ sliders = [s \in SliderNames |-> SliderStart]
    /\ step_result = "none"
    /\ step_action = <<>>
    /\ reset_calls = 0
    /\ step_saw = [ button |-> button, latest_reset |-> latest_reset ]

\* the command lines model-path resolution is run on
ArgChoices ==
    [ folder : Folders, exp_id : {-1, 0, 1}, load_best : BOOLEAN,
      load_checkpoint : {"None", "1000"}, load_last_checkpoint : BOOLEAN ]

\* the parser's defaults, lines 24-51
DefaultArgs ==
    [ folder |-> <<"rl-trained-agents">>, exp_id |-> 0, load_best |-> FALSE,
      load_checkpoint |-> "None", load_last_checkpoint |-> FALSE ]

\* a file system with no input directory
NoDirectory == << >>

\* the directories debug() is started on, each with a file that is no record
StartFileSystems ==
    { WriteFile(f, PathJoin(directory_path, NotesName), CorruptObject)
        : f \in { g \in InitialFileSystems :
                    \A p \in DOMAIN g : g[p] \in RecordChoices(SubSeq(p, 2, Len(p))) } }

\* debug() at line 126: the model path is resolved, nothing is listed yet
Init ==
    /\ run = 1
    /\ pc = "setup"
    /\ RunStart
    /\ args = DefaultArgs
    /\ calls = <<>>
    /\ dir_exists \in BOOLEAN
    /\ first_paths = [ set |-> FALSE, paths |-> <<>> ]
    /\ fs \in IF dir_exists THEN StartFileSystems ELSE {NoDirectory}
    /\ SimInit

Next ==
    \/ ListRecords
    \/ AllocateBuffers
    \/ OpenRecord
    \/ InsertPair
    \/ FinishLoop
    \/ DumpHer
    \/ DumpPlain
    \/ Rerun

Spec == Init /\ [][Next]_vars

\* debug() at line 88, on any command line; the directory plays no part
ResolveInit ==
    /\ run = 1
    /\ pc = "get_model_path"
    /\ RunStart
    /\ args \in ArgChoices
    /\ calls = <<>>
    /\ dir_exists = FALSE
    /\ first_paths = [ set |-> FALSE, paths |-> <<>> ]
    /\ fs = NoDirectory
    /\ SimInit

ResolveNext ==
    \/ GetModelPath
    \/ HubFallback

ResolveSpec == ResolveInit /\ [][ResolveNext]_vars

----------------------------------------------------------------------------
(* DebugSimulation, lines 260-340 *)

SliderValues == {0, 1}

\* the methods the class defines; step calls self.reset()
DebugSimulationMethods == {"__init__", "get_current_grasp_angles", "simulate", "step"}

HasMethod(name) == name \in DebugSimulationMethods

\* self.hand_pose, in the order __init__ appends the handles
hand_pose == <<"posX", "posY", "posZ">>

\* self.hand_orientation
hand_orientation == <<"roll", "pitch", "yaw">>

\* self.grasp_angles
grasp_angles == <<"grasp_angle_0", "grasp_angle_1">>

\* get_current_grasp_angles(), lines 302-306
GetCurrentGraspAngles(reading) ==
    [k \in 1..Len(grasp_angles) |-> reading[grasp_angles[k]]]

\* the action step builds from the readings, lines 327-340
StepAction(reading) ==
    LET target_pose == [k \in 1..Len(hand_pose) |-> reading[hand_pose[k]]]
        target_orientation ==
            [k \in 1..Len(hand_orientation) |-> reading[hand_orientation[k]]]
    IN  SubSeq(target_pose, 1, 3) \o <<target_orientation[1]>>
            \o GetCurrentGraspAngles(reading)

\* the test of step: readUserDebugParameter(self.reset_button) > self.latest_reset
ResetPressed(reading, latest) == reading > latest

\* the user clicks the reset button: its reading counts the clicks
Press ==
    /\ button < ButtonStart + MaxPress
    /\ button' = button + 1
    /\ UNCHANGED <<sliders, latest_reset, step_result, step_action,
                   reset_calls, step_saw>>
    /\ UNCHANGED pipe_vars

\* step(): `more` clicks land between the two reads of the button, and
\* `reading` is what the sliders show
Step ==
    \E reading \in [SliderNames -> SliderValues] :
        /\ sliders' = reading
        /\ step_saw' = [ button |-> button, latest_reset |-> latest_reset ]
        /\ IF ResetPressed(button, latest_reset)
           THEN \E more \in 0..(ButtonStart + MaxPress - button) :
                  /\ button' = button + more
                  /\ latest_reset' = button + more
                  /\ IF HasMethod("reset")
                     THEN /\ reset_calls' = 1
                          /\ step_result' = "returned"
                          /\ step_action' = StepAction(reading)
                     ELSE /\ reset_calls' = 0
                          /\ step_result' = "AttributeError"
                          /\ step_action' = <<>>
           ELSE /\ reset_calls' = 0
                /\ step_result' = "returned"
                /\ step_action' = StepAction(reading)
                /\ UNCHANGED <<button, latest_reset>>
        /\ UNCHANGED pipe_vars

\* a DebugSimulation right after construction; debug() plays no part
SimOnlyInit ==
    /\ run = 1
    /\ pc = "setup"
    /\ RunStart
    /\ args = DefaultArgs
    /\ calls = <<>>
    /\ dir_exists = FALSE
    /\ first_paths = [ set |-> FALSE, paths |-> <<>> ]
    /\ fs = NoDirectory
    /\ SimInit

SimNext ==
    \/ Press
    \/ Step

SimSpec == SimOnlyInit /\ [][SimNext]_vars

----------------------------------------------------------------------------
(* Properties *)

Range(seq) == { seq[k] : k \in 1..Len(seq) }

Allocated == replay_buffer.kind = "dict" /\ plain_replay_buffer.kind = "flat"

\* a record whose valid_count does not exceed what it holds
WellFormed(obj) == obj.kind = "dict" /\ obj.pos <= obj.buffer_size

\* a record whose declared valid_count exceeds what it holds
Overdeclared(obj) == obj.kind = "dict" /\ obj.pos > obj.buffer_size

\* the transitions 0 .. valid_count-1 of a record, in index order
RecordTransitions(obj) == [k \in 1..obj.pos |-> HerAddArgs(obj, k - 1)]

RECURSIVE ExpectedInserts(_)
ExpectedInserts(paths) ==
    IF paths = <<>> THEN <<>>
    ELSE RecordTransitions(fs[Head(paths)]) \o ExpectedInserts(Tail(paths))

RECURSIVE SumValidCounts(_)
SumValidCounts(paths) ==
    IF paths = <<>> THEN 0
    ELSE fs[Head(paths)].pos + SumValidCounts(Tail(paths))

AllWellFormed == \A p \in Range(file_paths) : WellFormed(fs[p])

\* the slots a buffer has written
Occupied(buf) == IF buf.full THEN Indices(buf.buffer_size) ELSE Indices(buf.pos)

\* the transition a goal-conditioned buffer holds in slot i
HerSlot(buf, i) ==
    [ obs |-> [k \in ObsKeys |-> buf.observations[k][i]],
      next_obs |-> [k \in ObsKeys |-> buf.next_observations[k][i]],
      action |-> buf.actions[i], reward |-> buf.rewards[i],
      done |-> buf.dones[i], info |-> buf.infos[i] ]

\* the transition a plain buffer holds in slot i
PlainSlot(buf, i) ==
    [ obs |-> buf.observations[i], next_obs |-> buf.next_observations[i],
      action |-> buf.actions[i], reward |-> buf.rewards[i],
      done |-> buf.dones[i], info |-> buf.infos[i] ]

\* a goal-conditioned transition with its observations projected to "observation"
Flat(t) ==
    [ obs |-> t.obs["observation"], next_obs |-> t.next_obs["observation"],
      action |-> t.action, reward |-> t.reward, done |-> t.done, info |-> t.info ]

\* the written slots of a buffer, oldest first
OldestFirst(buf) ==
    LET start == IF buf.full THEN buf.pos ELSE 0
    IN  [k \in 1..BufSize(buf) |-> (start + k - 1) % buf.buffer_size]

HerContents(buf) == [k \in 1..BufSize(buf) |-> HerSlot(buf, OldestFirst(buf)[k])]

PlainContents(buf) == [k \in 1..BufSize(buf) |-> PlainSlot(buf, OldestFirst(buf)[k])]

LastN(seq, n) == SubSeq(seq, Len(seq) - n + 1, Len(seq))

\* C1: when the reconstruction loop has finished over N >= 1 enumerated
\* records, the files opened are the enumerated records, each once and in
\* order, and the transitions inserted are each record's own transitions
\* 0 .. valid_count-1 in index order.
C1_EveryRecordOnce ==
    (pc = "dump_her" /\ Len(file_paths) >= 1) =>
        /\ opened = file_paths
        /\ AllWellFormed => inserted = ExpectedInserts(file_paths)

\* C2: when the loop has finished and the valid counts of the enumerated
\* records sum to T <= capacity, both buffers report exactly T transitions.
C2_CountsSum ==
    (pc = "dump_her" /\ AllWellFormed /\ SumValidCounts(file_paths) <= BufferSize) =>
        /\ BufSize(replay_buffer) = SumValidCounts(file_paths)
        /\ BufSize(plain_replay_buffer) = SumValidCounts(file_paths)

\* C3: after every paired insert the two buffers have the same write
\* position and inserted count, and in every occupied slot the same action,
\* reward, done and info, the plain observation and next observation being
\* the "observation" component of the goal-conditioned ones.
C3_Paired ==
    Allocated =>
        /\ plain_replay_buffer.pos = replay_buffer.pos
        /\ plain_replay_buffer.full = replay_buffer.full
        /\ BufSize(plain_replay_buffer) = BufSize(replay_buffer)
        /\ \A i \in Occupied(replay_buffer) :
             PlainSlot(plain_replay_buffer, i) = Flat(HerSlot(replay_buffer, i))

\* C3 witness: both buffers have wrapped around after paired inserts of
\* transitions whose observation differs from the next observation.
C3_Witness ==
    /\ pc = "done"
    /\ replay_buffer.full
    /\ Len(inserted) > BufferSize
    /\ \A i \in Occupied(plain_replay_buffer) :
         plain_replay_buffer.observations[i] # plain_replay_buffer.next_observations[i]

\* C4: once more transitions were inserted than the capacity, each buffer
\* holds exactly the last `capacity` transitions of the insertion sequence,
\* oldest first from the write position.
C4_RingKeepsLast ==
    (Allocated /\ Len(inserted) > BufferSize) =>
        /\ HerContents(replay_buffer) = LastN(inserted, BufferSize)
        /\ PlainContents(plain_replay_buffer)
             = [k \in 1..BufferSize |-> Flat(LastN(inserted, BufferSize)[k])]

\* C4 witness: one record read once, one transition more than the capacity
\* inserted, and the first of them no longer in either buffer.
C4_Witness ==
    /\ pc = "done"
    /\ Len(opened) = 1
    /\ Len(inserted) = BufferSize + 1
    /\ \A i \in Indices(BufferSize) :
         /\ replay_buffer.actions[i] # inserted[1].action
         /\ plain_replay_buffer.actions[i] # inserted[1].action

\* C5: with an enumerated record whose valid_count exceeds its entries the
\* loop never finishes; and an index error on such a record is raised at
\* the first index past its data, with no artifact written.
C5_OverdeclaredFails ==
    /\ (pc = "dump_her") => \A p \in Range(file_paths) : ~Overdeclared(fs[p])
    /\ (err = "IndexError" /\ Overdeclared(loaded_object)) =>
          /\ idx = loaded_object.buffer_size
          /\ art = NoArtifacts

\* C6 as stated: in every state after an error, neither artifact has been
\* written.
C6_NothingPersisted ==
    err # "none" => (art.her # "written" /\ art.plain # "written")

\* C6 amended: an error ends the run (only a new invocation follows it);
\* after an error raised before the second artifact is opened no complete
\* artifact has been written and the plain artifact is untouched; after an
\* error on the second artifact the first artifact has been written.
C6_AbortsAndPersists ==
    /\ [](err # "none" =>
            /\ pc = "aborted"
            /\ art.plain # "written"
            /\ err_at # "dump_plain" => (art.her # "written" /\ art.plain = "none")
            /\ err_at \notin {"dump_her", "dump_plain"} => art = NoArtifacts
            /\ err_at = "dump_plain" => art.her = "written")
    /\ [][err # "none" => (run' = run + 1 /\ err' = "none")]_vars

\* C6 witness: the write of the second artifact failed after inserts.
C6_Witness ==
    /\ pc = "aborted"
    /\ err_at = "dump_plain"
    /\ art.her = "written"
    /\ Len(inserted) > 0

\* C7: the buffers are created once, empty, before any record is opened;
\* the first artifact is written only after the loop has run out; no insert
\* follows the start of serialization; the goal-conditioned buffer is
\* serialized before the plain one, each once.
C7_Lifecycle ==
    /\ [](/\ n_alloc <= 1
          /\ (opened # <<>> \/ inserted # <<>>) => n_alloc = 1
          /\ pc \in {"dump_her", "dump_plain", "done"} =>
                (InnerLoopDone /\ counter = Len(file_paths))
          /\ art # NoArtifacts => pc \in {"dump_plain", "done", "aborted"}
          /\ art.plain # "none" => art.her = "written"
          /\ pc = "dump_plain" => art = [her |-> "written", plain |-> "none"]
          /\ pc = "done" => art = [her |-> "written", plain |-> "written"])
    /\ [][n_alloc' = n_alloc + 1 =>
            /\ opened = <<>> /\ inserted = <<>>
            /\ BufSize(replay_buffer') = 0
            /\ BufSize(plain_replay_buffer') = 0]_vars
    /\ [][(inserted' # inserted /\ run' = run) =>
            (art = NoArtifacts /\ art' = NoArtifacts)]_vars
    /\ [][((art # NoArtifacts \/ art' # NoArtifacts) /\ run' = run) =>
            UNCHANGED <<replay_buffer, plain_replay_buffer, inserted>>]_vars
    /\ [][(art.her # "none" /\ run' = run) => art'.her = art.her]_vars
    /\ [][(art.plain # "none" /\ run' = run) => art'.plain = art.plain]_vars

\* C7 witness: a run that inserted transitions and wrote both artifacts.
C7_Witness ==
    /\ pc = "done"
    /\ Len(inserted) > 0
    /\ art = [her |-> "written", plain |-> "written"]

Count(fn) == Cardinality({ k \in 1..Len(calls) : calls[k].fn = fn })

\* the log folder's name holds "rl-trained-agents"
LocalFolder == \E k \in 1..Len(args.folder) : args.folder[k] = "rl-trained-agents"

BothArtifactsWritten ==
    /\ {SavePathHer, SavePathPlain} \subseteq DOMAIN fs
    /\ fs[SavePathHer].kind = "dict"
    /\ fs[SavePathPlain].kind = "flat"

\* C9: after a first run that wrote both artifacts, a second run on the same
\* directory enumerates the same record files as the first.
C9_SameRecordsNextRun ==
    (run = 2 /\ pc = "alloc" /\ first_paths.set /\ BothArtifactsWritten) =>
        Range(file_paths) = Range(first_paths.paths)

\* C10: a step call makes one reset call exactly when the button reading
\* exceeds latest_reset, which then is at least that reading and never
\* above the button, and it returns the action
\* [posX, posY, posZ, roll, grasp_angle_0, grasp_angle_1].
C10_StepContract ==
    step_result # "none" =>
        /\ reset_calls = (IF step_saw.button > step_saw.latest_reset THEN 1 ELSE 0)
        /\ latest_reset >= step_saw.latest_reset
        /\ step_saw.button > step_saw.latest_reset => latest_reset >= step_saw.button
        /\ latest_reset <= button
        /\ step_result = "returned"
        /\ step_action = << sliders["posX"], sliders["posY"], sliders["posZ"],
                            sliders["roll"], sliders["grasp_angle_0"],
                            sliders["grasp_angle_1"] >>

====
